---------------------------- MODULE Spec2Model ----------------------------
(***************************************************************************)
(* The watchdog-driven deep-sleep loop of src/src/main.cpp (ATmega328P,    *)
(* Arduino core).  The main program advances one C statement per step; the *)
(* watchdog timer is an asynchronous hardware process that may expire at   *)
(* any moment it is running (no real-time assumption is made on how long   *)
(* the CPU stays awake), and the interrupt service routine ISR(WDT_vect)   *)
(* runs atomically between two statements of the main program.             *)
(*                                                                         *)
(* Registers are modelled as sets of the names of the bits that are set.   *)
(* The state after Arduino's init() and before setup(): power-on values of *)
(* the registers, global interrupts enabled (init() ends with sei()).      *)
(* No wake source other than the watchdog is enabled by the program, and   *)
(* the Arduino core enables none that works in power-down mode.            *)
(***************************************************************************)
EXTENDS Integers, FiniteSets

\* for (uint8_t pin = 0; pin < 20; pin++)
NumPins == 20

Pins == 0 .. (NumPins - 1)

\* The seven peripherals with a bit in PRR that enterDeepSleep gates.
Peripherals == {"ADC", "SPI", "TIMER0", "TIMER1", "TIMER2", "TWI", "USART0"}

\* Bits of the watchdog control register WDTCSR.
WdtBits == {"WDIF", "WDIE", "WDP3", "WDCE", "WDE", "WDP2", "WDP1", "WDP0"}

WdpBits == {"WDP3", "WDP2", "WDP1", "WDP0"}

\* Port state left behind by whatever ran before setup() (reset values, or a
\* bootloader that drove the LED or the serial lines): ddr = pins in output
\* mode, port = pins whose PORT bit is set (driven high / pull-up on).
InitialPins ==
    { [ddr |-> {},       port |-> {}],
      [ddr |-> {13},     port |-> {13}],
      [ddr |-> {1},      port |-> {0, 1}],
      [ddr |-> Pins,     port |-> Pins] }

VARIABLES
    pc,             \* next statement of the main program
    pin,            \* loop variable of setup()
    halted,         \* the CPU is stopped inside sleep_cpu()
    sregI,          \* global interrupt enable (SREG.I)
    watchdogFired,  \* volatile bool watchdogFired
    WDTCSR,         \* watchdog control register: set of bits that are 1
    SMCR,           \* sleep mode control: [SM: mode, SE: sleep-enable bit]
    PRR,            \* power reduction register: set of gated peripherals
    ACSR,           \* analog comparator control: set of bits that are 1
    DDR,            \* pins in output mode
    PORT,           \* pins whose PORT bit is set
    firedInSleep,   \* history: the ISR ran while halted in this iteration
    firedAwake,     \* history: the ISR ran between the clear and the halt
    gateCount,      \* history: disable calls per peripheral since sleep_enable
    collabCalls,    \* history: calls made to an external peripheral driver
    surplus,        \* history: handler runs minus completed loop iterations
    lastEvent       \* history: what the last step was

vars == << pc, pin, halted, sregI, watchdogFired, WDTCSR, SMCR, PRR, ACSR,
           DDR, PORT, firedInSleep, firedAwake, gateCount, collabCalls,
           surplus, lastEvent >>

hw    == << WDTCSR, SMCR, PRR, ACSR, DDR, PORT >>
hist  == << firedInSleep, firedAwake, gateCount, collabCalls, surplus >>

NoGates == [p \in Peripherals |-> 0]

\* No call to initialize() or enterLowPower() of an external driver so far.
NoCalls == [initialize |-> 0, enterLowPower |-> 0]

\* The most the handler's lead over the loop is counted up to.
MaxSurplus == 3

\* surplus after a run of the handler: one more, counted up to MaxSurplus
\* (the recorded value never exceeds the true difference).
Fired(n) == IF n < 0 \/ n >= MaxSurplus THEN n ELSE n + 1

\* surplus after loop() has returned: one less; -1 stands for "the loop has
\* completed more iterations than the handler has run" and stays.
Completed(n) == IF n < 0 THEN n ELSE n - 1

\* Saturating count: 2 stands for "twice or more".
Bump(n) == IF n < 2 THEN n + 1 ELSE 2

(***************************************************************************)
(* Hardware: the watchdog control register.                                *)
(***************************************************************************)

\* The effect of storing val into WDTCSR when it holds cur.  WDIF is cleared
\* by writing 1 to it; WDIE is freely writable; WDE can always be set but is
\* cleared only inside the timed window (WDCE set); the prescaler bits change
\* only inside the timed window; the window opens when WDCE and WDE are
\* written to 1 in the same store and closes with the next store.
WriteWDTCSR(cur, val) ==
    LET open == "WDCE" \in cur
        wdif == IF "WDIF" \in val THEN {} ELSE cur \cap {"WDIF"}
        wdie == val \cap {"WDIE"}
        wde  == IF "WDE" \in val THEN {"WDE"}
                ELSE IF open THEN {} ELSE cur \cap {"WDE"}
        wdp  == IF open THEN val \cap WdpBits ELSE cur \cap WdpBits
        wdce == IF {"WDCE", "WDE"} \subseteq val THEN {"WDCE"} ELSE {}
    IN  wdif \cup wdie \cup wde \cup wdp \cup wdce

\* An enabled interrupt is pending: the CPU takes it before the next
\* instruction of the main program.
IrqPending == sregI /\ {"WDIE", "WDIF"} \subseteq WDTCSR

\* The main program can execute its next statement.
Running == ~halted /\ ~IrqPending

(***************************************************************************)
(* Initial state: line 6 and the reset state of the hardware.              *)
(***************************************************************************)
\* Fault variant: the flag defined as true (volatile bool watchdogFired = true).
watchdogFired_init_true == TRUE

watchdogFired_init == FALSE

Init ==
    /\ pc = "setup_ACSR"
    /\ pin = 0
    /\ halted = FALSE
    /\ sregI = TRUE
    /\ watchdogFired = watchdogFired_init
    /\ WDTCSR = {}
    /\ SMCR = [SM |-> "IDLE", SE |-> FALSE]
    /\ PRR = {}
    /\ ACSR = {}
    /\ \E ip \in InitialPins : DDR = ip.ddr /\ PORT = ip.port
    /\ firedInSleep = FALSE
    /\ firedAwake = FALSE
    /\ gateCount = NoGates
    /\ collabCalls = NoCalls
    /\ surplus = 0
    /\ lastEvent = "reset"

(***************************************************************************)
(* setup(), lines 61-74.                                                   *)
(***************************************************************************)
\* ACSR |= (1 << ACD);
setup_ACSR ==
    /\ pc = "setup_ACSR" /\ Running
    /\ ACSR' = ACSR \cup {"ACD"}
    /\ pin' = 0
    /\ pc' = "setup_pinMode"
    /\ lastEvent' = "setup_ACSR"
    /\ UNCHANGED << halted, sregI, watchdogFired, WDTCSR, SMCR, PRR, DDR, PORT, hist >>

\* pinMode(pin, INPUT): the core clears the pin's DDR bit and its PORT bit.
setup_pinMode ==
    /\ pc = "setup_pinMode" /\ Running
    /\ pin < NumPins
    /\ DDR' = DDR \ {pin}
    /\ PORT' = PORT \ {pin}
    /\ pc' = "setup_digitalWrite"
    /\ lastEvent' = "setup_pinMode"
    /\ UNCHANGED << pin, halted, sregI, watchdogFired, WDTCSR, SMCR, PRR, ACSR, hist >>

\* Fault variant: the loop test written pin < 19, the last pin is skipped.
setup_digitalWrite_short ==
    /\ pc = "setup_digitalWrite" /\ Running
    /\ PORT' = PORT \ {pin}
    /\ pin' = pin + 1
    /\ pc' = IF pin + 1 < NumPins - 1 THEN "setup_pinMode" ELSE "wd_cli"
    /\ lastEvent' = "setup_digitalWrite"
    /\ UNCHANGED << halted, sregI, watchdogFired, WDTCSR, SMCR, PRR, ACSR, DDR, hist >>

\* Fault variant: digitalWrite(pin, HIGH), which turns the pull-up on.
setup_digitalWrite_high ==
    /\ pc = "setup_digitalWrite" /\ Running
    /\ PORT' = PORT \cup {pin}
    /\ pin' = pin + 1
    /\ pc' = IF pin + 1 < NumPins THEN "setup_pinMode" ELSE "wd_cli"
    /\ lastEvent' = "setup_digitalWrite"
    /\ UNCHANGED << halted, sregI, watchdogFired, WDTCSR, SMCR, PRR, ACSR, DDR, hist >>

\* digitalWrite(pin, LOW); pin++; and the loop test pin < 20.
setup_digitalWrite ==
    /\ pc = "setup_digitalWrite" /\ Running
    /\ PORT' = PORT \ {pin}
    /\ pin' = pin + 1
    /\ pc' = IF pin + 1 < NumPins THEN "setup_pinMode" ELSE "wd_cli"
    /\ lastEvent' = "setup_digitalWrite"
    /\ UNCHANGED << halted, sregI, watchdogFired, WDTCSR, SMCR, PRR, ACSR, DDR, hist >>

setup == setup_ACSR \/ setup_pinMode \/ setup_digitalWrite

(***************************************************************************)
(* setupWatchdog(), lines 20-33.                                           *)
(***************************************************************************)
\* Fault variant: setupWatchdog() without cli().
wd_cli_omitted ==
    /\ pc = "wd_cli" /\ Running
    /\ pc' = "wd_reset"
    /\ lastEvent' = "wd_cli"
    /\ UNCHANGED << pin, halted, sregI, watchdogFired, hw, hist >>

\* cli();
wd_cli ==
    /\ pc = "wd_cli" /\ Running
    /\ sregI' = FALSE
    /\ pc' = "wd_reset"
    /\ lastEvent' = "wd_cli"
    /\ UNCHANGED << pin, halted, watchdogFired, hw, hist >>

\* wdt_reset(): restarts the watchdog counter; no register changes.
wd_reset ==
    /\ pc = "wd_reset" /\ Running
    /\ pc' = "wd_unlock"
    /\ lastEvent' = "wd_reset"
    /\ UNCHANGED << pin, halted, sregI, watchdogFired, hw, hist >>

\* Fault variant: the unlock store sets WDCE without WDE, which does not
\* open the timed window.
wd_unlock_wdce_only ==
    /\ pc = "wd_unlock" /\ Running
    /\ WDTCSR' = WriteWDTCSR(WDTCSR, WDTCSR \cup {"WDCE"})
    /\ pc' = "wd_config"
    /\ lastEvent' = "wd_unlock"
    /\ UNCHANGED << pin, halted, sregI, watchdogFired, SMCR, PRR, ACSR, DDR, PORT, hist >>

\* WDTCSR |= (1 << WDCE) | (1 << WDE);   read, or, store.
wd_unlock ==
    /\ pc = "wd_unlock" /\ Running
    /\ WDTCSR' = WriteWDTCSR(WDTCSR, WDTCSR \cup {"WDCE", "WDE"})
    /\ pc' = "wd_config"
    /\ lastEvent' = "wd_unlock"
    /\ UNCHANGED << pin, halted, sregI, watchdogFired, SMCR, PRR, ACSR, DDR, PORT, hist >>

\* Fault variant: the configuration without WDIE,
\* WDTCSR = (1 << WDP3) | (1 << WDP0).
wd_config_no_wdie ==
    /\ pc = "wd_config" /\ Running
    /\ WDTCSR' = WriteWDTCSR(WDTCSR, {"WDP3", "WDP0"})
    /\ pc' = "wd_sei"
    /\ lastEvent' = "wd_config"
    /\ UNCHANGED << pin, halted, sregI, watchdogFired, SMCR, PRR, ACSR, DDR, PORT, hist >>

\* WDTCSR = (1 << WDIE) | (1 << WDP3) | (1 << WDP0);
wd_config ==
    /\ pc = "wd_config" /\ Running
    /\ WDTCSR' = WriteWDTCSR(WDTCSR, {"WDIE", "WDP3", "WDP0"})
    /\ pc' = "wd_sei"
    /\ lastEvent' = "wd_config"
    /\ UNCHANGED << pin, halted, sregI, watchdogFired, SMCR, PRR, ACSR, DDR, PORT, hist >>

\* Fault variant: setupWatchdog() returns without sei().
wd_sei_omitted ==
    /\ pc = "wd_sei" /\ Running
    /\ pc' = "loop_clear"
    /\ lastEvent' = "wd_sei"
    /\ UNCHANGED << pin, halted, sregI, watchdogFired, hw, hist >>

\* sei(); setupWatchdog and setup return, main() enters for (;;) loop();
wd_sei ==
    /\ pc = "wd_sei" /\ Running
    /\ sregI' = TRUE
    /\ pc' = "loop_clear"
    /\ lastEvent' = "wd_sei"
    /\ UNCHANGED << pin, halted, watchdogFired, hw, hist >>

setupWatchdog == wd_cli \/ wd_reset \/ wd_unlock \/ wd_config \/ wd_sei

(***************************************************************************)
(* enterDeepSleep(), lines 38-59.                                          *)
(***************************************************************************)
\* set_sleep_mode(SLEEP_MODE_PWR_DOWN);
set_sleep_mode ==
    /\ pc = "ds_set_sleep_mode" /\ Running
    /\ SMCR' = [SMCR EXCEPT !.SM = "PWR_DOWN"]
    /\ pc' = "ds_sleep_enable"
    /\ lastEvent' = "set_sleep_mode"
    /\ UNCHANGED << pin, halted, sregI, watchdogFired, WDTCSR, PRR, ACSR, DDR, PORT, hist >>

\* Fault variant: sleep_enable() left out, the sleep-enable bit stays clear.
sleep_enable_omitted ==
    /\ pc = "ds_sleep_enable" /\ Running
    /\ gateCount' = NoGates
    /\ pc' = "ds_adc"
    /\ lastEvent' = "sleep_enable"
    /\ UNCHANGED << pin, halted, sregI, watchdogFired, hw, firedInSleep, firedAwake,
                    collabCalls, surplus >>

\* sleep_enable();   from here on gateCount counts the disable calls.
sleep_enable ==
    /\ pc = "ds_sleep_enable" /\ Running
    /\ SMCR' = [SMCR EXCEPT !.SE = TRUE]
    /\ gateCount' = NoGates
    /\ pc' = "ds_adc"
    /\ lastEvent' = "sleep_enable"
    /\ UNCHANGED << pin, halted, sregI, watchdogFired, WDTCSR, PRR, ACSR, DDR, PORT,
                    firedInSleep, firedAwake, collabCalls, surplus >>

\* power_<p>_disable(): PRR |= (1 << PR<p>), executed at label here.
Gate(p, here, next) ==
    /\ pc = here /\ Running
    /\ PRR' = PRR \cup {p}
    /\ gateCount' = [gateCount EXCEPT ![p] = Bump(@)]
    /\ pc' = next
    /\ lastEvent' = "power_disable"
    /\ UNCHANGED << pin, halted, sregI, watchdogFired, WDTCSR, SMCR, ACSR, DDR, PORT,
                    firedInSleep, firedAwake, collabCalls, surplus >>

power_adc_disable    == Gate("ADC",    "ds_adc",    "ds_spi")

power_spi_disable    == Gate("SPI",    "ds_spi",    "ds_timer0")

power_timer0_disable == Gate("TIMER0", "ds_timer0", "ds_timer1")

power_timer1_disable == Gate("TIMER1", "ds_timer1", "ds_timer2")

\* Fault variant: power_timer1_disable() called a second time in place of
\* power_timer2_disable().
power_timer2_disable_dup == Gate("TIMER1", "ds_timer2", "ds_twi")

power_timer2_disable == Gate("TIMER2", "ds_timer2", "ds_twi")

power_twi_disable    == Gate("TWI",    "ds_twi",    "ds_usart0")

\* Fault variant: an external driver's enterLowPower() is called after the
\* last disable call, before sleep_cpu().
power_usart0_disable_then_enterLowPower ==
    /\ pc = "ds_usart0" /\ Running
    /\ PRR' = PRR \cup {"USART0"}
    /\ gateCount' = [gateCount EXCEPT !["USART0"] = Bump(@)]
    /\ collabCalls' = [collabCalls EXCEPT !.enterLowPower = Bump(@)]
    /\ pc' = "ds_sleep_cpu"
    /\ lastEvent' = "power_disable"
    /\ UNCHANGED << pin, halted, sregI, watchdogFired, WDTCSR, SMCR, ACSR, DDR, PORT,
                    firedInSleep, firedAwake, surplus >>

power_usart0_disable == Gate("USART0", "ds_usart0", "ds_sleep_cpu")

\* Fault variant: sleep_cpu() left out, the CPU never stops.
sleep_cpu_skipped ==
    /\ pc = "ds_sleep_cpu" /\ Running
    /\ pc' = "ds_sleep_disable"
    /\ lastEvent' = "sleep_cpu"
    /\ UNCHANGED << pin, halted, sregI, watchdogFired, hw, hist >>

\* sleep_cpu(): the SLEEP instruction stops the CPU if the sleep-enable bit
\* is set and is a no-op otherwise; execution continues with the statement
\* after it once the CPU runs again.
sleep_cpu ==
    /\ pc = "ds_sleep_cpu" /\ Running
    /\ halted' = SMCR.SE
    /\ pc' = "ds_sleep_disable"
    /\ lastEvent' = "sleep_cpu"
    /\ UNCHANGED << pin, sregI, watchdogFired, hw, hist >>

\* Fault variant: the two statements after sleep_cpu() in the other order,
\* the peripherals re-enabled where sleep_disable() should be.
sleep_disable_late ==
    /\ pc = "ds_sleep_disable" /\ Running
    /\ PRR' = PRR \ Peripherals
    /\ pc' = "ds_power_all_enable"
    /\ lastEvent' = "power_all_enable"
    /\ UNCHANGED << pin, halted, sregI, watchdogFired, WDTCSR, SMCR, ACSR, DDR, PORT, hist >>

\* sleep_disable();
sleep_disable ==
    /\ pc = "ds_sleep_disable" /\ Running
    /\ SMCR' = [SMCR EXCEPT !.SE = FALSE]
    /\ pc' = "ds_power_all_enable"
    /\ lastEvent' = "sleep_disable"
    /\ UNCHANGED << pin, halted, sregI, watchdogFired, WDTCSR, PRR, ACSR, DDR, PORT, hist >>

\* Fault variant: power_all_enable() left out.
power_all_enable_skipped ==
    /\ pc = "ds_power_all_enable" /\ Running
    /\ pc' = "loop_check"
    /\ lastEvent' = "power_all_enable"
    /\ UNCHANGED << pin, halted, sregI, watchdogFired, hw, hist >>

\* Fault variant: only the ADC is re-enabled (power_adc_enable()).
power_adc_enable_only ==
    /\ pc = "ds_power_all_enable" /\ Running
    /\ PRR' = PRR \ {"ADC"}
    /\ pc' = "loop_check"
    /\ lastEvent' = "power_all_enable"
    /\ UNCHANGED << pin, halted, sregI, watchdogFired, WDTCSR, SMCR, ACSR, DDR, PORT, hist >>

\* power_all_enable(): one store clears every PRR bit; enterDeepSleep returns.
power_all_enable ==
    /\ pc = "ds_power_all_enable" /\ Running
    /\ PRR' = PRR \ Peripherals
    /\ pc' = "loop_check"
    /\ lastEvent' = "power_all_enable"
    /\ UNCHANGED << pin, halted, sregI, watchdogFired, WDTCSR, SMCR, ACSR, DDR, PORT, hist >>

enterDeepSleep ==
    \/ set_sleep_mode \/ sleep_enable
    \/ power_adc_disable \/ power_spi_disable \/ power_timer0_disable
    \/ power_timer1_disable \/ power_timer2_disable \/ power_twi_disable
    \/ power_usart0_disable
    \/ sleep_cpu \/ sleep_disable \/ power_all_enable

(***************************************************************************)
(* loop(), lines 76-86; main() calls it again as soon as it returns.       *)
(***************************************************************************)
\* watchdogFired = false;   a new iteration begins: the histories restart.
loop_clear ==
    /\ pc = "loop_clear" /\ Running
    /\ watchdogFired' = FALSE
    /\ firedInSleep' = FALSE
    /\ firedAwake' = FALSE
    /\ pc' = "ds_set_sleep_mode"
    /\ lastEvent' = "loop_clear"
    /\ UNCHANGED << pin, halted, sregI, hw, gateCount, collabCalls, surplus >>

\* if (watchdogFired)
loop_check ==
    /\ pc = "loop_check" /\ Running
    /\ pc' = IF watchdogFired THEN "loop_hook" ELSE "loop_clear"
    /\ surplus' = IF watchdogFired THEN surplus ELSE Completed(surplus)
    /\ lastEvent' = "loop_check"
    /\ UNCHANGED << pin, halted, sregI, watchdogFired, hw, firedInSleep, firedAwake,
                    gateCount, collabCalls >>

\* { }   the empty body of the if; loop() returns.
loop_hook ==
    /\ pc = "loop_hook" /\ Running
    /\ pc' = "loop_clear"
    /\ surplus' = Completed(surplus)
    /\ lastEvent' = "loop_hook"
    /\ UNCHANGED << pin, halted, sregI, watchdogFired, hw, firedInSleep, firedAwake,
                    gateCount, collabCalls >>

loop == loop_clear \/ loop_check \/ loop_hook

(***************************************************************************)
(* The watchdog: the timer expiring, and ISR(WDT_vect), lines 11-14.       *)
(***************************************************************************)
\* The labels at which the main program is between the clear of the flag and
\* the SLEEP instruction.
BeforeHalt == {"ds_set_sleep_mode", "ds_sleep_enable", "ds_adc", "ds_spi",
               "ds_timer0", "ds_timer1", "ds_timer2", "ds_twi", "ds_usart0",
               "ds_sleep_cpu"}

\* The watchdog timer expires: with WDIE set the hardware raises WDIF.  The
\* timer cannot expire inside the four-cycle configuration window, which
\* wdt_reset() precedes (the shortest period is 2048 oscillator cycles).
WdtTimeout ==
    /\ "WDIE" \in WDTCSR
    /\ "WDCE" \notin WDTCSR
    /\ "WDIF" \notin WDTCSR
    /\ WDTCSR' = WDTCSR \cup {"WDIF"}
    /\ lastEvent' = "WdtTimeout"
    /\ UNCHANGED << pc, pin, halted, sregI, watchdogFired, SMCR, PRR, ACSR, DDR, PORT, hist >>

\* Fault variant: an empty handler, ISR(WDT_vect) { }.
WDT_vect_empty ==
    /\ IrqPending
    /\ WDTCSR' = WDTCSR \ (IF "WDE" \in WDTCSR THEN {"WDIF", "WDIE"} ELSE {"WDIF"})
    /\ halted' = FALSE
    /\ firedInSleep' = (firedInSleep \/ halted)
    /\ firedAwake' = (firedAwake \/ (~halted /\ pc \in BeforeHalt))
    /\ surplus' = Fired(surplus)
    /\ lastEvent' = "WDT_vect"
    /\ UNCHANGED << pc, pin, sregI, watchdogFired, SMCR, PRR, ACSR, DDR, PORT, gateCount,
                    collabCalls >>

\* Fault variant: the handler also calls sleep_disable().
WDT_vect_sleep_disable ==
    /\ IrqPending
    /\ watchdogFired' = TRUE
    /\ SMCR' = [SMCR EXCEPT !.SE = FALSE]
    /\ WDTCSR' = WDTCSR \ (IF "WDE" \in WDTCSR THEN {"WDIF", "WDIE"} ELSE {"WDIF"})
    /\ halted' = FALSE
    /\ firedInSleep' = (firedInSleep \/ halted)
    /\ firedAwake' = (firedAwake \/ (~halted /\ pc \in BeforeHalt))
    /\ surplus' = Fired(surplus)
    /\ lastEvent' = "WDT_vect"
    /\ UNCHANGED << pc, pin, sregI, PRR, ACSR, DDR, PORT, gateCount,
                    collabCalls >>

\* ISR(WDT_vect) { watchdogFired = true; }
\* Taking the vector clears WDIF (and WDIE when WDE is also set), wakes a
\* halted CPU, and the handler runs to its RETI with interrupts masked.
WDT_vect ==
    /\ IrqPending
    /\ watchdogFired' = TRUE
    /\ WDTCSR' = WDTCSR \ (IF "WDE" \in WDTCSR THEN {"WDIF", "WDIE"} ELSE {"WDIF"})
    /\ halted' = FALSE
    /\ firedInSleep' = (firedInSleep \/ halted)
    /\ firedAwake' = (firedAwake \/ (~halted /\ pc \in BeforeHalt))
    /\ surplus' = Fired(surplus)
    /\ lastEvent' = "WDT_vect"
    /\ UNCHANGED << pc, pin, sregI, SMCR, PRR, ACSR, DDR, PORT, gateCount,
                    collabCalls >>

(***************************************************************************)
(* The system.                                                             *)
(***************************************************************************)
MainStep == setup \/ setupWatchdog \/ enterDeepSleep \/ loop

Next == MainStep \/ WdtTimeout \/ WDT_vect

Spec == Init /\ [][Next]_vars

\* The CPU executes the main program whenever it is not halted and no
\* interrupt is pending (it always executes at least one instruction between
\* two interrupts); the watchdog oscillator keeps running; a pending enabled
\* interrupt is taken.
FairSpec == Spec /\ SF_vars(MainStep) /\ WF_vars(WdtTimeout) /\ WF_vars(WDT_vect)

TypeOK ==
    /\ pin \in 0 .. NumPins
    /\ halted \in BOOLEAN /\ sregI \in BOOLEAN /\ watchdogFired \in BOOLEAN
    /\ WDTCSR \subseteq WdtBits
    /\ SMCR \in [SM : {"IDLE", "PWR_DOWN"}, SE : BOOLEAN]
    /\ PRR \subseteq Peripherals
    /\ ACSR \subseteq {"ACD"}
    /\ DDR \subseteq Pins /\ PORT \subseteq Pins
    /\ firedInSleep \in BOOLEAN /\ firedAwake \in BOOLEAN
    /\ collabCalls \in [initialize : 0 .. 2, enterLowPower : 0 .. 2]
    /\ surplus \in -1 .. MaxSurplus
    /\ gateCount \in [Peripherals -> 0 .. 2]

(***************************************************************************)
(* Properties.                                                             *)
(***************************************************************************)
GatingLabels == {"ds_spi", "ds_timer0", "ds_timer1", "ds_timer2", "ds_twi", "ds_usart0"}

AfterHalt == {"ds_sleep_disable", "ds_power_all_enable", "loop_check", "loop_hook"}

BootLabels == {"setup_ACSR", "setup_pinMode", "setup_digitalWrite",
               "wd_cli", "wd_reset", "wd_unlock", "wd_config", "wd_sei"}

PartiallyGated == PRR # {} /\ PRR # Peripherals

\* C1: right after the clear at the top of an iteration watchdogFired is
\* false, and at the check after enterDeepSleep() returns it is true exactly
\* when the watchdog interrupt fired while the CPU was halted in that
\* iteration (an interrupt between the clear and the halt does not by itself
\* decide the flag at the check).
C1_WakeFlag ==
    /\ lastEvent = "loop_clear" => ~watchdogFired
    /\ pc = "loop_check" => (watchdogFired <=> firedInSleep)

\* An iteration reaches the check after an interrupt before the halt and one
\* during the halt.
C1_Witness ==
    pc = "loop_check" /\ watchdogFired /\ firedInSleep /\ firedAwake

\* C2: when the CPU executes the halt instruction (and while it is halted)
\* power-down mode is selected, the sleep-enable bit is set, all seven
\* peripherals are gated, and each was disabled exactly once since
\* sleep_enable().
C2_GatedAtHalt ==
    (pc = "ds_sleep_cpu" \/ halted) =>
        /\ SMCR = [SM |-> "PWR_DOWN", SE |-> TRUE]
        /\ PRR = Peripherals
        /\ \A p \in Peripherals : gateCount[p] = 1

C2_Witness ==
    halted /\ lastEvent = "sleep_cpu" /\ PRR = Peripherals
           /\ \A p \in Peripherals : gateCount[p] = 1

\* C3: at the post-wake check and in the application hook all seven
\* peripherals are enabled again and the sleep-enable bit is cleared.
C3_RestoredAtHook ==
    pc \in {"loop_check", "loop_hook"} => (PRR = {} /\ ~SMCR.SE)

C3_Witness ==
    pc = "loop_hook" /\ firedInSleep /\ PRR = {} /\ ~SMCR.SE

\* C4 as stated: the watchdog handler only ever runs with all seven
\* peripherals enabled or all seven disabled.
C4_IsrNeverSeesPartialSet ==
    lastEvent = "WDT_vect" => ~PartiallyGated

\* C4 as amended: the peripheral set is partially gated only while
\* enterDeepSleep() is between power_adc_disable() and
\* power_usart0_disable() with the CPU running (never while halted, and
\* never partially restored); the watchdog handler can run in such a state
\* but leaves the peripheral set as it is.
C4_PartialOnlyWhileGating ==
    /\ [](PartiallyGated => (pc \in GatingLabels /\ ~halted))
    /\ [][lastEvent' = "WDT_vect" => PRR' = PRR]_vars

\* The handler has just run between two disable calls.
C4_Witness ==
    lastEvent = "WDT_vect" /\ PartiallyGated /\ pc \in GatingLabels

\* C5: after a resume the sleep-enable bit is cleared before any peripheral
\* is re-enabled: the sleep-enable bit is set together with an enabled
\* peripheral only in the gating phase before the halt.
C5_DisarmBeforeRestore ==
    (SMCR.SE /\ PRR # Peripherals) => pc \in ({"ds_adc"} \cup GatingLabels)

\* After the resume: sleep-enable already cleared, peripherals still gated.
C5_Witness ==
    pc = "ds_power_all_enable" /\ ~halted /\ ~SMCR.SE /\ PRR = Peripherals

\* C6: the CPU leaves the halted state only in a step of the watchdog
\* handler, and the main program is past sleep_cpu() and running only if the
\* watchdog interrupt fired during the halt of this iteration.
C6_WakeOnlyByWatchdog ==
    /\ []((pc \in AfterHalt /\ ~halted) => firedInSleep)
    /\ [][(halted /\ ~halted') => lastEvent' = "WDT_vect"]_vars

C6_Witness ==
    pc = "ds_sleep_disable" /\ ~halted /\ lastEvent = "WDT_vect" /\ firedInSleep

\* C7: under fairness (the CPU runs, the watchdog keeps expiring, pending
\* interrupts are taken) every halt is followed by a resume and the loop
\* starts a new iteration infinitely often.
C7_NoTerminalState ==
    /\ halted ~> ~halted
    /\ []<>(lastEvent = "loop_clear")

\* A halt that was entered after an interrupt had already fired between the
\* clear and the halt.
C7_Witness ==
    halted /\ firedAwake /\ "WDIF" \notin WDTCSR

\* C8: watchdogFired starts false, becomes true only in the watchdog
\* handler and becomes false only in the clear at the top of loop().
C8_SingleWriter ==
    /\ [](lastEvent = "reset" => ~watchdogFired)
    /\ [][(watchdogFired' # watchdogFired) =>
            IF watchdogFired' THEN lastEvent' = "WDT_vect"
                              ELSE lastEvent' = "loop_clear"]_vars

\* The value set by the handler is still there several statements later.
C8_Witness ==
    watchdogFired /\ lastEvent = "power_all_enable"

\* C9: once setupWatchdog() has completed the watchdog configuration is
\* interrupt enabled, reset disabled, prescaler WDP3|WDP0, with the
\* configuration window closed, and stays so (only the hardware flag WDIF
\* still changes).
C9_WatchdogConfigFixed ==
    pc \notin BootLabels => WDTCSR \ {"WDIF"} = {"WDIE", "WDP3", "WDP0"}

C9_Witness ==
    pc = "loop_hook" /\ lastEvent = "loop_check"
        /\ WDTCSR \ {"WDIF"} = {"WDIE", "WDP3", "WDP0"}

\* C11: once setup() has finished the analog comparator is disabled and
\* every pin 0..19 is an input with its PORT bit clear, and no later step of
\* the loop or of the handler changes that.
C11_PinsQuiescedAfterBoot ==
    pc \notin BootLabels => (ACSR = {"ACD"} /\ DDR = {} /\ PORT = {})

\* Still so after the watchdog has woken the CPU from a halt.
C11_Witness ==
    pc = "loop_check" /\ firedInSleep /\ ACSR = {"ACD"} /\ DDR = {} /\ PORT = {}

\* C12: a step of the watchdog handler sets watchdogFired and leaves the
\* sleep-enable bit, the sleep mode, the gated peripherals, the watchdog
\* configuration (WDTCSR apart from the flag WDIF the hardware clears), the
\* comparator, the pins and the position of the main program unchanged.
C12_IsrOnlySetsFlag ==
    [][lastEvent' = "WDT_vect" =>
          /\ watchdogFired'
          /\ WDTCSR' \ {"WDIF"} = WDTCSR \ {"WDIF"}
          /\ UNCHANGED << SMCR, PRR, ACSR, DDR, PORT, pc, pin, sregI >>]_vars

\* The handler has run while the sleep-enable bit was set and the
\* peripherals were gated, and both are as before.
C12_Witness ==
    /\ lastEvent = "WDT_vect" /\ watchdogFired /\ pc = "ds_sleep_disable"
    /\ SMCR.SE /\ PRR = Peripherals

\* C14: in setupWatchdog() interrupts are disabled from cli() until sei();
\* the configuration store is the step right after the unlock store, made
\* with the timed window open; so the handler never runs between the two.
C14_UnlockSequenceAtomic ==
    /\ pc \in {"wd_reset", "wd_unlock", "wd_config", "wd_sei"} => ~sregI
    /\ pc = "wd_config" => (lastEvent = "wd_unlock" /\ "WDCE" \in WDTCSR)
    /\ pc = "wd_sei" => "WDCE" \notin WDTCSR
    /\ pc \in BootLabels => (lastEvent # "WDT_vect" /\ ~watchdogFired)
    /\ lastEvent = "wd_sei" => sregI

\* Between the two stores: window open, watchdog in reset mode, interrupts
\* off.
C14_Witness ==
    pc = "wd_config" /\ ~sregI /\ {"WDCE", "WDE"} \subseteq WDTCSR

\* C15: the boot sequence runs once and in order: comparator off, then the
\* twenty pins in ascending order, then the watchdog; the watchdog interrupt
\* is enabled (and the handler has run) only with the comparator off and all
\* pins input/low, and the loop runs only with the watchdog configured.
C15_BootOrder ==
    /\ [](pc \in {"setup_pinMode", "setup_digitalWrite"} =>
            (ACSR = {"ACD"} /\ (DDR \cup PORT) \cap (0 .. pin - 1) = {}
                            /\ WDTCSR = {}))
    /\ []((("WDIE" \in WDTCSR) \/ watchdogFired \/ pc \notin BootLabels) =>
            (ACSR = {"ACD"} /\ DDR = {} /\ PORT = {} /\ pin = NumPins))
    /\ [](pc \notin BootLabels => {"WDIE", "WDP3", "WDP0"} \subseteq WDTCSR)
    /\ [][(pc' \in BootLabels => pc \in BootLabels) /\ pin' >= pin]_vars

\* The watchdog interrupt has just been enabled, at the end of the boot.
C15_Witness ==
    pc = "wd_sei" /\ "WDIE" \in WDTCSR /\ pin = NumPins
                  /\ ACSR = {"ACD"} /\ DDR = {} /\ PORT = {}

\* C16: whenever the main loop is at the check after enterDeepSleep() the
\* flag is true, and the check always goes into the body of the if.
C16_HookAlwaysTaken ==
    /\ [](pc = "loop_check" => watchdogFired)
    /\ [][lastEvent' = "loop_check" => pc' = "loop_hook"]_vars

C16_Witness ==
    pc = "loop_hook" /\ lastEvent = "loop_check" /\ watchdogFired /\ ~firedAwake

\* C18: when the CPU executes the halt instruction, and while it is halted,
\* global interrupts are enabled and the watchdog interrupt is enabled.
C18_WakeableAtHalt ==
    (pc = "ds_sleep_cpu" \/ halted) => (sregI /\ "WDIE" \in WDTCSR)

\* Halted with the watchdog interrupt raised and about to be taken.
C18_Witness ==
    halted /\ sregI /\ {"WDIE", "WDIF"} \subseteq WDTCSR

\* C13 as stated: an external driver's initialize() has been called exactly
\* once when the loop runs, and its enterLowPower() has been called when the
\* CPU executes the halt instruction.
C13_CollaboratorCalled ==
    /\ pc \notin BootLabels => collabCalls.initialize = 1
    /\ (pc = "ds_sleep_cpu" \/ halted) => collabCalls.enterLowPower >= 1

\* C13 as amended: the controller calls no operation of an external driver,
\* neither during the boot nor between the gating and the halt; the halt
\* instruction is reached straight from the last disable call.
C13_NoCollaboratorCalls ==
    /\ collabCalls = NoCalls
    /\ lastEvent = "sleep_cpu" => (PRR = Peripherals /\ gateCount["USART0"] = 1)

\* Halted after a full boot and gating, without any such call.
C13_Witness ==
    halted /\ lastEvent = "sleep_cpu" /\ collabCalls = NoCalls
           /\ "WDIE" \in WDTCSR /\ PRR = Peripherals

\* C17: the loop never completes more iterations than the watchdog handler
\* has run since boot, and an iteration completes only after the handler ran
\* during its halt, also when the handler ran before the halt as well.
C17_NoSpinWithoutSleep ==
    /\ surplus >= 0
    /\ (pc = "loop_clear" /\ lastEvent \in {"loop_check", "loop_hook"}) => firedInSleep

\* An iteration has completed in which the handler ran before the halt and
\* during it: the handler is ahead of the loop.
C17_Witness ==
    pc = "loop_clear" /\ lastEvent = "loop_hook" /\ firedAwake /\ surplus >= 1

==========================================================================
